---- MODULE Spec2Model ----
(***************************************************************************)
(* blink-and-vote: the session state machine of the Index page and the     *)
(* FaceVerification, BlinkVerification, FaceRegistration and               *)
(* VotingInterface components it mounts, over the profile / vote / audit   *)
(* store.                                                                  *)
(*                                                                         *)
(* The browser is single threaded: a step of the model is one run of the   *)
(* event loop (a click handler, a timer or interval callback, the          *)
(* continuation of an awaited promise, an auth event).  Every callback     *)
(* carries the values its closure captured when the callback was created:  *)
(* a React state variable read inside a callback is the value of the       *)
(* render that created the callback, not the current one.                  *)
(*                                                                         *)
(* Handlers are operators from a state record to a state record, so that   *)
(* a handler that calls another one is their composition; an action        *)
(* commits the result of one event-loop run, re-rendering included.        *)
(***************************************************************************)
EXTENDS Integers, Sequences, FiniteSets, TLC

VARIABLES
    app,    \* Index: user, appState, userProfile, isLoading
    db,     \* the store: profiles, votes
    fr,     \* FaceRegistration instance
    fv,     \* FaceVerification instance
    bv,     \* BlinkVerification instance
    vi,     \* VotingInterface instance
    tasks,  \* pending timers, intervals and awaited promises, oldest first
    cells,  \* the `attempts` counter of each startVerification closure
    obs     \* what a run puts out (the audit row it appends, the answer to a
            \* vote insert) and observations used to state the claims; the
            \* code reads none of it

vars == <<app, db, fr, fv, bv, vi, tasks, cells, obs>>

-----------------------------------------------------------------------------
(* Bounds of the model *)

AppTasks == 2        \* pending callbacks followed from a page load
StepTasks == 3       \* pending callbacks followed within one step
MaxIntervals == 3    \* interval ids in use at any time
AgeCap == 6          \* ages (in polling periods) saturate here: 600 ms
MaxCaptures == 4     \* descriptors held by one enrollment
MaxInFlight == 2     \* face detections of FaceVerification in flight
MaxStreams == 2      \* camera streams open at one time
MaxSignIns == 1      \* sign-ins followed from one page load
CamWait == 2         \* polling periods a camera request is followed waiting

(* Program constants *)

maxAttempts == 50          \* FaceVerification.startVerification
requiredBlinks == 3        \* BlinkVerification
Period == 100              \* ms, the polling period of both setInterval calls
VerifyDoneDelay == 1500    \* ms before onVerificationComplete(true)
MatchThresholdSq == 36     \* threshold 0.6, squared, in hundredths
BlinkThreshold == 25       \* blinkThreshold 0.25, in hundredths
CloseDebounce == 500       \* ms since lastBlinkTime before a closure is taken
OpenDebounce == 200        \* ms since lastBlinkTime before a blink is counted
BlinkSettleDelay == 1000   \* ms before onBlinkComplete()
BlinkTimeout == 30000      \* ms before the auto-fail callback
maxSteps == 3              \* FaceRegistration: guided poses
EnrollDoneDelay == 1500    \* ms before FaceRegistration's onComplete()
VoteDoneDelay == 2000      \* ms before onVoteComplete()

Null == "null"
Users == {"u1", "u2"}

(* Face descriptors: vectors of tenths.  Ref is the enrolled template; the
   camera shows a face at distance 0.4 of it, one at distance 0.6, or none. *)
Ref == <<0, 0>>
NearFace == <<4, 0>>
EdgeFace == <<6, 0>>
NoFace == <<>>       \* no descriptor: no face detected, or none stored
VerifyFrames == {NoFace, NearFace, EdgeFace}

(* Eye aspect ratios of both eyes, in hundredths, as the landmarks of a frame
   give them: eyes closed, eyes open, or no face. *)
ClosedEyes == [face |-> TRUE, l |-> 10, r |-> 10]
OpenEyes == [face |-> TRUE, l |-> 35, r |-> 35]
NoEyes == [face |-> FALSE, l |-> 0, r |-> 0]
BlinkFrames == {NoEyes, ClosedEyes, OpenEyes}

(* What the camera shows at an enrollment capture *)
EnrollShots == {"none", "front"}

(* Three faces that differ, for the reduction of the enrollment *)
GradedShots == {"none", "one", "three", "five"}

Shot(a) ==
    CASE a = "front" -> Ref
      [] a = "one" -> <<1, 1, 1>>
      [] a = "three" -> <<3, 3, 3>>
      [] a = "five" -> <<5, 5, 5>>
      [] OTHER -> NoFace

(* The elections table (all rows active), newest first, and their options *)
ElectionSeq == <<"e1", "e2">>
Elections == {ElectionSeq[i] : i \in DOMAIN ElectionSeq}
Options == [e \in Elections |-> IF e = "e1" THEN {"a", "b"} ELSE {"b", "c"}]

-----------------------------------------------------------------------------
(* Initial values of the component instances *)

FvInit == [mounted |-> FALSE, stream |-> FALSE, isLoading |-> TRUE,
           isActive |-> FALSE,
           isVerifying |-> FALSE, stored |-> NoFace, status |-> "waiting",
           intervalRef |-> 0]

(* lastAge is the time since lastBlinkTime, in polling periods, saturated at
   AgeCap; lastBlinkTime = 0 (the epoch) is an age beyond every debounce. *)
BvInit == [mounted |-> FALSE, stream |-> FALSE, isLoading |-> TRUE,
           isActive |-> FALSE,
           blinkCount |-> 0, isEyeClosed |-> FALSE, lastAge |-> AgeCap,
           status |-> "waiting", intervalRef |-> 0]

FrInit == [mounted |-> FALSE, stream |-> FALSE, isLoading |-> TRUE,
           isCameraActive |-> FALSE,
           isProcessing |-> FALSE, capturedImages |-> 0, currentStep |-> 1,
           allDescriptors |-> <<>>, faceDescriptor |-> NoFace]

ViInit == [mounted |-> FALSE, isLoading |-> TRUE, elections |-> <<>>,
           selectedElection |-> Null, selectedOption |-> Null,
           isSubmitting |-> FALSE, userVotes |-> {}]

NoAudit == [action |-> "none"]

(* What a run read from the profiles table, kept for the properties *)
NoRead == [k |-> "none"]

(* The state a run of the event loop starts from: nothing put out yet *)
Cur == [app |-> app, db |-> db, fr |-> fr, fv |-> fv, bv |-> bv, vi |-> vi,
        tasks |-> tasks, cells |-> cells,
        obs |-> [obs EXCEPT !.out = NoAudit, !.tick = 0, !.vote = "none",
                          !.got = NoRead, !.miss = FALSE,
                          !.toast = "none"]]

-----------------------------------------------------------------------------
(* The task pool: setTimeout / setInterval callbacks and awaited promises.
   Every task has k (its kind), own (the component whose code created it) and
   live (FALSE once that component instance has unmounted: its setState calls
   are then ignored by React and its videoRef.current is null).  Timers and
   intervals carry rem, the polling periods left before they are due. *)

IntervalKinds == {"fvTick", "bvTick"}
TimerKinds == {"loadTimer", "fvDone", "bvDone", "bvFail", "frDone", "viDone"}
IsInterval(t) == t.k \in IntervalKinds
IsTimer(t) == t.k \in TimerKinds
IsTimed(t) == IsInterval(t) \/ IsTimer(t)

Quanta(ms) == ms \div Period

RemoveAt(seq, i) ==
    [j \in 1..(Len(seq) - 1) |-> IF j < i THEN seq[j] ELSE seq[j + 1]]

AddTask(s, t) == [s EXCEPT !.tasks = Append(@, t)]

Without(s, i) == [s EXCEPT !.tasks = RemoveAt(@, i)]

MarkStale(s, c) ==
    LET old == s.tasks IN
    [s EXCEPT !.tasks = [i \in DOMAIN old |->
        IF old[i].own = c THEN [old[i] EXCEPT !.live = FALSE] ELSE old[i]]]

TaskIds(s, kinds) ==
    {s.tasks[i].id : i \in {j \in DOMAIN s.tasks : s.tasks[j].k \in kinds}}

UsedIds(s) ==
    TaskIds(s, IntervalKinds \cup {"fvDetect"})
        \cup {s.fv.intervalRef, s.bv.intervalRef}

FreeIds(s) == (1..MaxIntervals) \ UsedIds(s)

NewId(s) == CHOOSE i \in FreeIds(s) : \A j \in FreeIds(s) : i <= j

clearInterval(s, id) ==
    [s EXCEPT !.tasks = SelectSeq(@, LAMBDA t : ~(IsInterval(t) /\ t.id = id))]

-----------------------------------------------------------------------------
(* The store.  Row-level security evaluates auth.uid() as the signed-in user,
   which the model identifies with app.user. *)

NoProfile == [exists |-> FALSE, face |-> NoFace, verified |-> FALSE]

ProfileVisible(s, uid) == s.app.user = uid /\ s.db.profiles[uid].exists

ProfileInsertable(s, uid) == s.app.user = uid /\ ~s.db.profiles[uid].exists

(* audit_logs is append-only and never read: the model keeps the row a run
   appends as the output of that run *)
auditInsert(s, rec) == [s EXCEPT !.obs.out = rec]

(* The camera.  getUserMedia that resolves opens a stream; a stream stays
   open until its tracks are stopped.  obs.live counts the open streams and
   stream of a component says that the srcObject of its video element is an
   open stream. *)
getUserMedia(s) == [s EXCEPT !.obs.live = @ + 1]

(* videoRef.current.srcObject = stream *)
setSrcObject(s, c) == [s EXCEPT ![c].stream = TRUE]

(* the first lines of stopCamera: the tracks of srcObject are stopped *)
stopTracks(s, c) ==
    IF s[c].stream
    THEN [s EXCEPT ![c].stream = FALSE, !.obs.live = @ - 1]
    ELSE s

-----------------------------------------------------------------------------
(* Index *)

AppInit == [user |-> Null, appState |-> "auth", userProfile |-> Null,
            isLoading |-> TRUE]

setAppState(s, v) == [s EXCEPT !.app.appState = v]

(* an entry decision that sends every profile to Verify *)
EntryStateUnchecked(p) == "face-verification"

EntryState(p) ==
    IF p.face = NoFace \/ ~p.verified THEN "face-registration"
    ELSE "face-verification"

(* toast.error for a failed store request of operation op *)
toastError(s, op) == [s EXCEPT !.obs.toast = op]

loadUserProfile(s, userId) ==
    AddTask(s, [k |-> "profSel", own |-> "idx", live |-> TRUE, uid |-> userId])

(* loadUserProfile after the profile select has resolved *)
loadUserProfileSelected(s, t, o) ==
    IF o = "err" THEN toastError([s EXCEPT !.app.isLoading = FALSE], "profile")
    ELSE IF ~ProfileVisible(s, t.uid)
    THEN AddTask([s EXCEPT !.obs.got = [k |-> "profile", row |-> NoProfile]],
                 [k |-> "profIns", own |-> "idx", live |-> TRUE,
                  uid |-> t.uid])
    ELSE [s EXCEPT !.app.userProfile = t.uid,
                   !.app.appState = EntryState(s.db.profiles[t.uid]),
                   !.app.isLoading = FALSE,
                   !.obs.got = [k |-> "profile",
                                row |-> s.db.profiles[t.uid]]]

(* loadUserProfile after the insert of a new profile has resolved *)
loadUserProfileInserted(s, t, o) ==
    IF o = "ok" /\ ProfileInsertable(s, t.uid)
    THEN [s EXCEPT !.db.profiles[t.uid] = [NoProfile EXCEPT !.exists = TRUE],
                   !.app.appState = "face-registration",
                   !.app.isLoading = FALSE,
                   !.obs.got = [k |-> "created"]]
    ELSE toastError([s EXCEPT !.app.isLoading = FALSE], "profile")

getSessionResolved(s) ==
    IF s.app.user # Null THEN loadUserProfile(s, s.app.user)
    ELSE [s EXCEPT !.app.isLoading = FALSE]

(* the onAuthStateChange callback *)
onAuthStateChange(s, u) ==
    IF u # Null
    THEN AddTask([s EXCEPT !.app.user = u],
                 [k |-> "loadTimer", own |-> "idx", live |-> TRUE, uid |-> u,
                  rem |-> 0])
    ELSE [s EXCEPT !.app.user = Null, !.app.appState = "auth",
                   !.app.userProfile = Null]

handleSignOut(s) ==
    [onAuthStateChange(s, Null) EXCEPT !.app.user = Null,
        !.app.userProfile = Null, !.app.appState = "auth"]

handleFaceRegistrationComplete(s, capUser) ==
    LET s1 == setAppState(s, "face-verification") IN
    IF capUser # Null THEN loadUserProfile(s1, capUser) ELSE s1

handleFaceVerificationComplete(s, success) ==
    IF success THEN setAppState(s, "blink-verification")
    ELSE setAppState(s, "face-verification")

handleBlinkComplete(s) == setAppState(s, "voting")

handleVoteComplete(s) == setAppState(s, "complete")

(* resetToVoting as its name reads: straight back to the ballot *)
resetToVotingDirect(s) == setAppState(s, "voting")

resetToVoting(s) == setAppState(s, "face-verification")

(* Which child the render of Index mounts *)
Wanted(s) ==
    IF s.app.isLoading THEN "none"
    ELSE CASE s.app.appState = "face-registration" /\ s.app.user # Null -> "fr"
           [] s.app.appState = "face-verification" /\ s.app.user # Null -> "fv"
           [] s.app.appState = "blink-verification" -> "bv"
           [] s.app.appState = "voting" /\ s.app.user # Null -> "vi"
           [] OTHER -> "none"

-----------------------------------------------------------------------------
(* FaceVerification *)

(* faceapi.euclideanDistance, squared (the code compares the distance with
   0.6; the model compares the squares, in hundredths) *)
RECURSIVE SumSq(_, _, _)
SumSq(a, b, i) ==
    IF i > Len(a) THEN 0
    ELSE (a[i] - b[i]) * (a[i] - b[i]) + SumSq(a, b, i + 1)

euclideanDistanceSq(a, b) == SumSq(a, b, 1)

IsMatch(distSq) == distSq < MatchThresholdSq

fvSet(s, t, f, v) == IF t.live THEN [s EXCEPT !.fv[f] = v] ELSE s

(* clearInterval(intervalRef.current) as run by a callback of instance t: the
   ref of an unmounted instance names an interval its cleanup has cleared *)
fvClearRef(s, t) == IF t.live THEN clearInterval(s, s.fv.intervalRef) ELSE s

fvStopCamera(s, t) ==
    LET s1 == IF t.live THEN stopTracks(s, "fv") ELSE s IN
    fvClearRef(fvSet(s1, t, "isActive", FALSE), t)

fvMount(s) ==
    AddTask([s EXCEPT !.fv = [FvInit EXCEPT !.mounted = TRUE]],
            [k |-> "fvLoad", own |-> "fv", live |-> TRUE, uid |-> s.app.user])

fvUnmount(s, refs) ==
    LET s0 == IF refs THEN stopTracks(s, "fv") ELSE s
        s1 == clearInterval(s0, s0.fv.intervalRef)
    IN [MarkStale(s1, "fv") EXCEPT !.fv = FvInit]

(* loadModelsAndData that shows the toast and goes on without onCancel() *)
fvNoFaceDataIgnored(s) == s

(* loadModelsAndData when the select failed or returned no descriptor: the
   toast and onCancel() *)
fvNoFaceData(s) == setAppState(s, "face-registration")

(* loadModelsAndData after the models and the profile select have resolved:
   err is a failure to load the models, selerr an error of the select *)
loadModelsAndData(s, t, o) ==
    IF o = "err" THEN s
    ELSE IF \/ o = "selerr"
            \/ ~ProfileVisible(s, t.uid)
            \/ s.db.profiles[t.uid].face = NoFace
    THEN fvNoFaceData([s EXCEPT !.obs.got = [k |-> "descriptor",
                                            face |-> NoFace]])
    ELSE LET d == s.db.profiles[t.uid].face
             s1 == fvSet(s, t, "stored", d)
             s2 == fvSet(s1, t, "isLoading", FALSE)
         IN AddTask([s2 EXCEPT !.obs.got = [k |-> "descriptor", face |-> d]],
                    [k |-> "fvCam", own |-> "fv", live |-> t.live])

(* startCamera after getUserMedia has resolved *)
fvStartCamera(s, t, o) ==
    IF o # "ok" THEN s
    ELSE IF t.live
    THEN [setSrcObject(getUserMedia(s), "fv") EXCEPT !.fv.isActive = TRUE]
    ELSE getUserMedia(s)

startVerification(s) ==
    IF s.fv.stored = NoFace THEN s ELSE
    LET id == NewId(s) IN
    AddTask([s EXCEPT !.fv.isVerifying = TRUE, !.fv.status = "verifying",
                      !.fv.intervalRef = id, !.cells[id] = 0],
            [k |-> "fvTick", own |-> "fv", live |-> TRUE, id |-> id,
             isActive |-> s.fv.isActive, stored |-> s.fv.stored,
             uid |-> s.app.user, rem |-> 1])

(* One run of the interval callback, up to its first await.  frame is what
   the camera shows: a face descriptor or NoFace. *)
fvTick(s, t, frame) ==
    IF ~t.live \/ ~t.isActive \/ s.cells[t.id] >= maxAttempts
    THEN IF s.cells[t.id] >= maxAttempts
         THEN LET s1 == fvSet(s, t, "status", "failed")
                  s2 == fvSet(s1, t, "isVerifying", FALSE)
                  s3 == auditInsert(s2, [action |-> "FACE_VERIFICATION_FAILED",
                                         uid |-> t.uid, reason |-> "timeout"])
              IN AddTask(s3, [k |-> "fvFailAudit", own |-> "fv",
                              live |-> t.live])
         ELSE fvClearRef(s, t)
    ELSE LET n == s.cells[t.id] + 1 IN
         AddTask([s EXCEPT !.cells[t.id] = n],
                 [k |-> "fvDetect", own |-> "fv", live |-> t.live, id |-> t.id,
                  stored |-> t.stored, uid |-> t.uid, frame |-> frame,
                  tickNo |-> n])

(* the interval callback with a detection: the comparison with the stored
   descriptor *)
fvCompare(s, t) ==
    LET distSq == euclideanDistanceSq(t.stored, t.frame) IN
    IF IsMatch(distSq)
    THEN LET s1 == fvSet(s, t, "status", "success")
             s2 == fvSet(s1, t, "isVerifying", FALSE)
             s3 == fvClearRef(s2, t)
             s4 == auditInsert(s3,
                       [action |-> "FACE_VERIFICATION_SUCCESS",
                        uid |-> t.uid, distSq |-> distSq,
                        thresholdSq |-> MatchThresholdSq,
                        attempts |-> s.cells[t.id]])
         IN AddTask([s4 EXCEPT !.obs.tick = t.tickNo],
                    [k |-> "fvOkAudit", own |-> "fv", live |-> t.live])
    ELSE s

(* an interval callback that takes a frame without a face for a failure *)
fvDetectedStrict(s, t, o) ==
    IF o = "err" THEN s
    ELSE IF t.frame = NoFace
    THEN fvSet([s EXCEPT !.obs.miss = TRUE], t, "status", "failed")
    ELSE fvCompare(s, t)

(* The interval callback after detectSingleFace has resolved; miss records
   for the properties that the frame held no face *)
fvDetected(s, t, o) ==
    IF o = "err" THEN s
    ELSE IF t.frame = NoFace THEN [s EXCEPT !.obs.miss = TRUE]
    ELSE fvCompare(s, t)

fvFailAudited(s, t) == fvClearRef(s, t)

fvOkAudited(s, t) ==
    AddTask(s, [k |-> "fvDone", own |-> "fv", live |-> t.live,
                rem |-> Quanta(VerifyDoneDelay)])

fvDone(s, t) == handleFaceVerificationComplete(fvStopCamera(s, t), TRUE)

fvTryAgain(s) == [s EXCEPT !.fv.status = "waiting", !.fv.isVerifying = FALSE]

fvCancel(s) == setAppState(s, "face-registration")

-----------------------------------------------------------------------------
(* BlinkVerification *)

(* The reference detector before its first frame *)
MonInit == [closed |-> FALSE, count |-> 0, age |-> AgeCap]

(* What the functions of one render close over *)
Closure(b) == [isActive |-> b.isActive, isEyeClosed |-> b.isEyeClosed,
               lastAge |-> b.lastAge, blinkCount |-> b.blinkCount,
               status |-> b.status]

bvSet(s, t, f, v) == IF t.live THEN [s EXCEPT !.bv[f] = v] ELSE s

bvClearRef(s, t) == IF t.live THEN clearInterval(s, s.bv.intervalRef) ELSE s

bvStopCamera(s, t) ==
    LET s1 == IF t.live THEN stopTracks(s, "bv") ELSE s IN
    bvClearRef(bvSet(s1, t, "isActive", FALSE), t)

bvMount(s) ==
    AddTask([s EXCEPT !.bv = [BvInit EXCEPT !.mounted = TRUE]],
            [k |-> "bvLoad", own |-> "bv", live |-> TRUE])

bvUnmount(s, refs) ==
    LET s0 == IF refs THEN stopTracks(s, "bv") ELSE s
        s1 == clearInterval(s0, s0.bv.intervalRef)
    IN
    [MarkStale(s1, "bv") EXCEPT !.bv = BvInit, !.obs.mon = MonInit,
        !.obs.settle = 0, !.obs.script = 0, !.obs.gap = AgeCap,
        !.obs.detFor = 0]

(* loadModels after the models have resolved; startCamera is the one of the
   first render *)
loadModels(s, t, o) ==
    IF o = "err" THEN s
    ELSE AddTask(bvSet(s, t, "isLoading", FALSE),
                 [k |-> "bvCam", own |-> "bv", live |-> t.live,
                  cap |-> Closure(BvInit)])

startBlinkDetection(s, cap) ==
    LET id == NewId(s)
        s1 == [s EXCEPT !.bv.status = "detecting", !.bv.intervalRef = id,
                        !.obs.mon = MonInit, !.obs.settle = 0,
                        !.obs.script = 0, !.obs.gap = AgeCap,
                        !.obs.detFor = 0]
        s2 == AddTask(s1, [k |-> "bvTick", own |-> "bv", live |-> TRUE,
                           id |-> id, cap |-> cap, rem |-> 1])
    IN AddTask(s2, [k |-> "bvFail", own |-> "bv", live |-> TRUE, cap |-> cap,
                    rem |-> Quanta(BlinkTimeout)])

(* startCamera after getUserMedia has resolved *)
bvStartCamera(s, t, o) ==
    IF o # "ok" THEN s
    ELSE IF t.live
    THEN startBlinkDetection(
             [setSrcObject(getUserMedia(s), "bv") EXCEPT !.bv.isActive = TRUE],
             t.cap)
    ELSE getUserMedia(s)

(* The reference the blink properties compare the component with: the
   eye-close edge and the eye-open edge as C5 and C8 state them ("at least"
   CloseDebounce, OpenDebounce since the last counted blink), fed with the
   frame the camera shows at a tick of a detecting session.  The component
   reads nothing of it. *)
Edges(m, closed) ==
    IF closed /\ ~m.closed /\ m.age * Period >= CloseDebounce
    THEN [m EXCEPT !.closed = TRUE]
    ELSE IF ~closed /\ m.closed /\ m.age * Period >= OpenDebounce
    THEN [closed |-> FALSE,
          count |-> IF m.count < requiredBlinks THEN m.count + 1
                    ELSE m.count,
          age |-> 0]
    ELSE m

(* How far the frames fed so far follow the script of C7, open, closed, open
   with ticks more than CloseDebounce apart: 3 is the whole script, 4 is off
   it *)
Script(k, closed, gap) ==
    LET spaced == gap * Period > CloseDebounce IN
    IF k = 0 /\ ~closed THEN 1
    ELSE IF k = 1 /\ closed /\ spaced THEN 2
    ELSE IF k = 2 /\ ~closed /\ spaced THEN 3
    ELSE 4

Observe(s, t, frame, watch) ==
    IF t.k # "bvTick" \/ ~t.live \/ s.bv.status # "detecting" \/ ~frame.face
    THEN s
    ELSE LET closed == frame.l + frame.r < 2 * BlinkThreshold IN
         IF watch = "edges"
         THEN [s EXCEPT !.obs.mon = Edges(@, closed)]
         ELSE IF watch = "script"
         THEN [s EXCEPT !.obs.script = Script(@, closed, s.obs.gap),
                        !.obs.gap = 0]
         ELSE s

(* One run of the interval callback, up to its first await *)
bvTick(s, t, frame) ==
    IF ~t.live \/ ~t.cap.isActive THEN s
    ELSE AddTask(s, [k |-> "bvDetect", own |-> "bv", live |-> t.live,
                     cap |-> t.cap, frame |-> frame])

(* setBlinkCount(prev => ...) with the completion it schedules *)
countBlink(s, t) ==
    IF ~t.live THEN s
    ELSE LET newCount == s.bv.blinkCount + 1
             s1 == [s EXCEPT !.bv.blinkCount = newCount]
         IN IF newCount >= requiredBlinks
            THEN AddTask([s1 EXCEPT !.bv.status = "completed"],
                         [k |-> "bvDone", own |-> "bv", live |-> TRUE,
                          rem |-> Quanta(BlinkSettleDelay)])
            ELSE s1

(* The interval callback after detectSingleFace has resolved *)
bvDetected(s, t, o) ==
    IF o = "err" THEN s
    ELSE IF ~t.frame.face THEN [s EXCEPT !.obs.miss = TRUE]
    ELSE LET elapsed == t.cap.lastAge * Period IN
         IF t.frame.l + t.frame.r < 2 * BlinkThreshold
         THEN IF ~t.cap.isEyeClosed /\ elapsed > CloseDebounce
              THEN bvSet(s, t, "isEyeClosed", TRUE)
              ELSE s
         ELSE IF t.cap.isEyeClosed /\ elapsed > OpenDebounce
              THEN bvSet(bvSet(countBlink(s, t), t, "lastAge", 0), t,
                         "isEyeClosed", FALSE)
              ELSE s

bvDone(s, t) == handleBlinkComplete(bvStopCamera(s, t))

(* an auto-fail callback that reads the state of the component as it is
   when the timer fires *)
bvFailCurrent(s, t) ==
    IF s.bv.blinkCount < requiredBlinks /\ s.bv.status = "detecting"
    THEN bvStopCamera(bvSet(s, t, "status", "failed"), t)
    ELSE s

(* The auto-fail callback *)
bvFail(s, t) ==
    IF t.cap.blinkCount < requiredBlinks /\ t.cap.status = "detecting"
    THEN bvStopCamera(bvSet(s, t, "status", "failed"), t)
    ELSE s

(* The Start Verification / Try Again button *)
bvStart(s) ==
    startBlinkDetection([s EXCEPT !.bv.blinkCount = 0, !.bv.status = "waiting"],
                        Closure(s.bv))

bvCancel(s) == setAppState(s, "face-verification")

-----------------------------------------------------------------------------
(* FaceRegistration *)

frSet(s, t, f, v) == IF t.live THEN [s EXCEPT !.fr[f] = v] ELSE s

frMount(s) ==
    AddTask([s EXCEPT !.fr = [FrInit EXCEPT !.mounted = TRUE]],
            [k |-> "frLoad", own |-> "fr", live |-> TRUE])

frUnmount(s, refs) ==
    LET s0 == IF refs THEN stopTracks(s, "fr") ELSE s IN
    [MarkStale(s0, "fr") EXCEPT !.fr = FrInit]

frLoadModels(s, t, o) ==
    IF o = "ok" THEN frSet(s, t, "isLoading", FALSE) ELSE s

frStartCameraClick(s) ==
    AddTask(s, [k |-> "frCam", own |-> "fr", live |-> TRUE])

frStartCamera(s, t, o) ==
    IF o # "ok" THEN s
    ELSE IF t.live
    THEN [setSrcObject(getUserMedia(s), "fr") EXCEPT
             !.fr.isCameraActive = TRUE]
    ELSE getUserMedia(s)

frStopCamera(s, t) ==
    frSet(IF t.live THEN stopTracks(s, "fr") ELSE s,
          t, "isCameraActive", FALSE)

(* captureFace up to the detection; the closure holds currentStep and
   allDescriptors of the render of the click *)
captureFace(s, frame) ==
    AddTask([s EXCEPT !.fr.isProcessing = TRUE, !.obs.retaken = FALSE],
            [k |-> "frDetect", own |-> "fr", live |-> TRUE, frame |-> frame,
             uid |-> s.app.user, step |-> s.fr.currentStep,
             descs |-> s.fr.allDescriptors])

(* captureFace after the detection: the blob callback up to the upload *)
frDetected(s, t, o) ==
    IF o = "err" \/ t.frame = NoFace THEN frSet(s, t, "isProcessing", FALSE)
    ELSE LET s1 == IF t.live
                   THEN [s EXCEPT !.fr.capturedImages = @ + 1,
                                  !.fr.allDescriptors = Append(@, t.frame)]
                   ELSE s
         IN AddTask(s1, [k |-> "frUpload", own |-> "fr", live |-> t.live,
                         uid |-> t.uid, step |-> t.step, descs |-> t.descs])

RECURSIVE SumAt(_, _, _)
SumAt(descs, i, n) ==
    IF n = 0 THEN 0 ELSE descs[n][i] + SumAt(descs, i, n - 1)

(* the averaging loop of captureFace over the descriptors of its closure *)
avgDescriptor(descs) ==
    [i \in DOMAIN descs[1] |-> SumAt(descs, i, Len(descs)) \div Len(descs)]

(* captureFace after the upload has resolved *)
frUploaded(s, t, o) ==
    IF o = "err" THEN toastError(frSet(s, t, "isProcessing", FALSE), "enroll")
    ELSE IF t.step < maxSteps
    THEN frSet(IF t.live THEN [s EXCEPT !.fr.currentStep = @ + 1] ELSE s,
               t, "isProcessing", FALSE)
    ELSE AddTask(s, [k |-> "frUpsert", own |-> "fr", live |-> t.live,
                     uid |-> t.uid, avg |-> avgDescriptor(t.descs),
                     n |-> Len(t.descs)])

(* a captureFace whose dbError branch lacks its return *)
frUpsertedNoReturn(s, t, o) ==
    LET failed == o = "err" \/ s.app.user # t.uid
        s0 == IF failed
              THEN toastError(frSet(s, t, "isProcessing", FALSE), "enroll")
              ELSE [s EXCEPT !.db.profiles[t.uid] =
                        [exists |-> TRUE, face |-> t.avg, verified |-> TRUE]]
        s2 == frSet(s0, t, "faceDescriptor", t.avg)
        s3 == auditInsert(s2, [action |-> "FACE_REGISTERED",
                               uid |-> t.uid, steps |-> maxSteps,
                               avgAccuracy |-> t.n])
    IN AddTask(s3, [k |-> "frAudit", own |-> "fr", live |-> t.live,
                    uid |-> t.uid])

(* captureFace after the profile upsert has resolved *)
frUpserted(s, t, o) ==
    IF o = "err" \/ s.app.user # t.uid
    THEN toastError(frSet(s, t, "isProcessing", FALSE), "enroll")
    ELSE LET s1 == [s EXCEPT !.db.profiles[t.uid] =
                        [exists |-> TRUE, face |-> t.avg, verified |-> TRUE]]
             s2 == frSet(s1, t, "faceDescriptor", t.avg)
             s3 == auditInsert(s2, [action |-> "FACE_REGISTERED",
                                    uid |-> t.uid, steps |-> maxSteps,
                                    avgAccuracy |-> t.n])
         IN AddTask(s3, [k |-> "frAudit", own |-> "fr", live |-> t.live,
                         uid |-> t.uid])

(* captureFace after the audit insert has resolved *)
frAudited(s, t) ==
    AddTask(frStopCamera(frSet(s, t, "isProcessing", FALSE), t),
            [k |-> "frDone", own |-> "fr", live |-> t.live, uid |-> t.uid,
             rem |-> Quanta(EnrollDoneDelay)])

frDone(s, t) == handleFaceRegistrationComplete(s, t.uid)

retakePhoto(s) ==
    frStartCameraClick([s EXCEPT !.fr.capturedImages = 0,
                                 !.fr.allDescriptors = <<>>,
                                 !.fr.currentStep = 1,
                                 !.fr.faceDescriptor = NoFace,
                                 !.obs.retaken = TRUE])

-----------------------------------------------------------------------------
(* VotingInterface *)

viSet(s, t, f, v) == IF t.live THEN [s EXCEPT !.vi[f] = v] ELSE s

viMount(s) ==
    AddTask([s EXCEPT !.vi = [ViInit EXCEPT !.mounted = TRUE]],
            [k |-> "viLoad", own |-> "vi", live |-> TRUE, uid |-> s.app.user])

viUnmount(s) == [MarkStale(s, "vi") EXCEPT !.vi = ViInit]

(* the votes a select by uid returns: "Users can view their own votes" *)
VotedBy(s, uid) ==
    IF s.app.user = uid THEN {v.election : v \in {w \in s.db.votes : w.user = uid}}
    ELSE {}

FirstAvailable(voted) ==
    LET free == {i \in DOMAIN ElectionSeq : ElectionSeq[i] \notin voted} IN
    IF free = {} THEN Null
    ELSE ElectionSeq[CHOOSE i \in free : \A j \in free : i <= j]

(* loadElections after both selects have resolved; o = "novotes" is the
   votes select failing, which the code only logs *)
loadElections(s, t, o) ==
    IF o = "err" THEN viSet(s, t, "isLoading", FALSE)
    ELSE IF ~t.live THEN s
    ELSE LET voted == IF o = "novotes" THEN {} ELSE VotedBy(s, t.uid)
             first == FirstAvailable(voted)
         IN [s EXCEPT !.vi.userVotes = voted, !.vi.elections = ElectionSeq,
                      !.vi.selectedElection =
                          IF first = Null THEN @ ELSE first,
                      !.vi.isLoading = FALSE]

(* isElectionActive: now is within start_date..end_date of the election;
   every election loadElections has read has is_active set *)
isElectionActive(s, e) == e \in s.db.running

selectElection(s, e) == [s EXCEPT !.vi.selectedElection = e]

selectOption(s, o) == [s EXCEPT !.vi.selectedOption = o]

(* submitVote up to getUserIP *)
submitVote(s) ==
    AddTask([s EXCEPT !.vi.isSubmitting = TRUE],
            [k |-> "viIp", own |-> "vi", live |-> TRUE, uid |-> s.app.user,
             election |-> s.vi.selectedElection,
             option |-> s.vi.selectedOption])

(* submitVote after getUserIP, which answers 'unknown' when it fails *)
viGotIp(s, t, o) ==
    AddTask(s, [k |-> "viInsert", own |-> "vi", live |-> t.live, uid |-> t.uid,
                election |-> t.election, option |-> t.option,
                ip |-> IF o = "ok" THEN "ip" ELSE "unknown"])

(* The votes table without its unique constraint *)
NoVoteExists(votes, uid, e) == FALSE

(* UNIQUE(user_id, election_id) of the votes table *)
VoteExists(votes, uid, e) ==
    \E v \in votes : v.user = uid /\ v.election = e

(* the insert into votes: "duplicate", "error" or "ok" *)
voteInsertResult(s, t, o) ==
    IF o = "err" \/ s.app.user # t.uid \/ t.ip = "unknown" THEN "error"
    ELSE IF VoteExists(s.db.votes, t.uid, t.election) THEN "duplicate"
    ELSE "ok"

(* a submitVote that tests only for an error other than the conflict and
   takes a rejected duplicate for a vote that was cast *)
viInsertedLenient(s, t, o) ==
    LET r == voteInsertResult(s, t, o) IN
    IF r = "error"
    THEN [viSet(s, t, "isSubmitting", FALSE) EXCEPT !.obs.vote = r]
    ELSE LET s1 == [s EXCEPT !.obs.vote = r]
             s2 == auditInsert(s1, [action |-> "VOTE_SUBMITTED",
                                    uid |-> t.uid, election |-> t.election,
                                    option |-> t.option])
         IN AddTask(s2, [k |-> "viAudit", own |-> "vi", live |-> t.live,
                         election |-> t.election])

(* submitVote after the insert has resolved *)
viInserted(s, t, o) ==
    LET r == voteInsertResult(s, t, o) IN
    IF r # "ok"
    THEN [viSet(s, t, "isSubmitting", FALSE) EXCEPT !.obs.vote = r]
    ELSE LET s1 == [s EXCEPT !.db.votes = @ \cup
                        {[user |-> t.uid, election |-> t.election,
                          option |-> t.option, face_verified |-> TRUE,
                          blink_verified |-> TRUE]},
                        !.obs.vote = r]
             s2 == auditInsert(s1, [action |-> "VOTE_SUBMITTED",
                                    uid |-> t.uid, election |-> t.election,
                                    option |-> t.option])
         IN AddTask(s2, [k |-> "viAudit", own |-> "vi", live |-> t.live,
                         election |-> t.election])

(* submitVote after the audit insert has resolved *)
viAudited(s, t) ==
    LET s1 == IF t.live
              THEN [s EXCEPT !.vi.userVotes = @ \cup {t.election},
                             !.vi.isSubmitting = FALSE]
              ELSE s
    IN AddTask(s1, [k |-> "viDone", own |-> "vi", live |-> t.live,
                    rem |-> Quanta(VoteDoneDelay)])

viDone(s, t) == handleVoteComplete(s)

-----------------------------------------------------------------------------
(* One run of the event loop *)

Unmount(s, c, refs) ==
    CASE c = "fr" -> frUnmount(s, refs)
      [] c = "fv" -> fvUnmount(s, refs)
      [] c = "bv" -> bvUnmount(s, refs)
      [] c = "vi" -> viUnmount(s)

Mount(s, c) ==
    CASE c = "fr" -> frMount(s)
      [] c = "fv" -> fvMount(s)
      [] c = "bv" -> bvMount(s)
      [] c = "vi" -> viMount(s)
      [] OTHER -> s

Children == <<"fr", "fv", "bv", "vi">>

RECURSIVE UnmountFrom(_, _, _, _)
UnmountFrom(s, w, i, refs) ==
    IF i > Len(Children) THEN s
    ELSE LET c == Children[i] IN
         UnmountFrom(IF s[c].mounted /\ c # w THEN Unmount(s, c, refs) ELSE s,
                     w, i + 1, refs)

(* The render of Index after the state changes of a run: children whose
   condition no longer holds unmount (their cleanup runs), the child whose
   condition holds mounts (its mount effect runs).  refs says whether
   videoRef.current is still the video element when the cleanup of an
   unmounting child runs: React before 17 runs the cleanup before it detaches
   the refs, React 17 and later after, and the version is not in the source *)
Render(s, refs) ==
    LET w == Wanted(s)
        s1 == UnmountFrom(s, w, 1, refs)
    IN IF w # "none" /\ ~s1[w].mounted THEN Mount(s1, w) ELSE s1

(* the choice matters when a child that holds a stream unmounts *)
CleanupRefs(s) ==
    IF \E c \in {"fr", "fv", "bv"} :
           s[c].mounted /\ s[c].stream /\ Wanted(s) # c
    THEN BOOLEAN ELSE {TRUE}

KindOrder ==
    <<"getSession", "loadTimer", "profSel", "profIns",
      "fvLoad", "fvCam", "fvTick", "fvDetect", "fvFailAudit", "fvOkAudit",
      "fvDone", "bvLoad", "bvCam", "bvTick", "bvDetect", "bvDone", "bvFail",
      "frLoad", "frCam", "frDetect", "frUpload", "frUpsert", "frAudit",
      "frDone", "viLoad", "viIp", "viInsert", "viAudit", "viDone">>

RECURSIVE ByKind(_, _)
ByKind(ts, i) ==
    IF i > Len(KindOrder) THEN <<>>
    ELSE SelectSeq(ts, LAMBDA t : t.k = KindOrder[i]) \o ByKind(ts, i + 1)

(* A callback of an unmounted instance that can only call setState, which
   React then ignores, or return at its first guard *)
Inert(s, t) ==
    /\ ~t.live
    /\ CASE t.k \in {"fvFailAudit", "bvLoad", "bvTick",
                     "bvDetect", "bvFail", "frLoad", "viLoad"} -> TRUE
         [] t.k = "fvTick" -> s.cells[t.id] < maxAttempts
         [] t.k = "fvDetect" ->
                \/ t.frame = NoFace
                \/ ~IsMatch(euclideanDistanceSq(t.stored, t.frame))
         [] t.k = "frDetect" -> t.frame = NoFace \/ t.step < maxSteps
         [] t.k = "frUpload" -> t.step < maxSteps
         [] OTHER -> FALSE

(* The pool is kept grouped by kind, oldest first within a kind (which
   pending callback runs next does not depend on its place) and without its
   inert callbacks; an attempts counter no callback can reach any more is
   forgotten *)
Normalize(s) ==
    LET s1 == [s EXCEPT !.tasks =
                   ByKind(SelectSeq(@, LAMBDA t : ~Inert(s, t)), 1)]
        keep == TaskIds(s1, {"fvTick", "fvDetect"}) \cup {s1.fv.intervalRef}
    IN [s1 EXCEPT !.cells =
                      [i \in DOMAIN @ |-> IF i \in keep THEN @[i] ELSE 0]]

InFlight(s) == Cardinality({i \in DOMAIN s.tasks : s.tasks[i].k = "fvDetect"})

Commit(s, e) ==
    \E refs \in CleanupRefs(s) :
    \E r \in {Normalize(Render([s EXCEPT !.obs.click = e], refs))} :
    /\ Len(r.tasks) <= r.obs.maxTasks
    /\ r.obs.live <= MaxStreams
    /\ InFlight(r) <= MaxInFlight
    /\ app' = r.app /\ db' = r.db /\ fr' = r.fr /\ fv' = r.fv /\ bv' = r.bv
    /\ vi' = r.vi /\ tasks' = r.tasks /\ cells' = r.cells /\ obs' = r.obs

(* How an awaited promise can settle *)
Outcomes(t) ==
    CASE t.k \in {"fvFailAudit", "fvOkAudit", "frAudit", "viAudit",
                  "fvDetect", "bvDetect", "getSession"} -> {"ok"}
      [] t.k = "viLoad" -> {"ok", "err", "novotes"}
      [] t.k = "fvLoad" -> {"ok", "err", "selerr"}
      [] OTHER -> {"ok", "err"}

Settle(s, t, o) ==
    CASE t.k = "getSession" -> getSessionResolved(s)
      [] t.k = "profSel" -> loadUserProfileSelected(s, t, o)
      [] t.k = "profIns" -> loadUserProfileInserted(s, t, o)
      [] t.k = "fvLoad" -> loadModelsAndData(s, t, o)
      [] t.k = "fvCam" -> fvStartCamera(s, t, o)
      [] t.k = "fvDetect" -> fvDetected(s, t, o)
      [] t.k = "fvFailAudit" -> fvFailAudited(s, t)
      [] t.k = "fvOkAudit" -> fvOkAudited(s, t)
      [] t.k = "bvLoad" -> loadModels(s, t, o)
      [] t.k = "bvCam" -> bvStartCamera(s, t, o)
      [] t.k = "bvDetect" -> bvDetected(s, t, o)
      [] t.k = "frLoad" -> frLoadModels(s, t, o)
      [] t.k = "frCam" -> frStartCamera(s, t, o)
      [] t.k = "frDetect" -> frDetected(s, t, o)
      [] t.k = "frUpload" -> frUploaded(s, t, o)
      [] t.k = "frUpsert" -> frUpserted(s, t, o)
      [] t.k = "frAudit" -> frAudited(s, t)
      [] t.k = "viLoad" -> loadElections(s, t, o)
      [] t.k = "viIp" -> viGotIp(s, t, o)
      [] t.k = "viInsert" -> viInserted(s, t, o)
      [] t.k = "viAudit" -> viAudited(s, t)

Fire(s, t) ==
    CASE t.k = "loadTimer" -> loadUserProfile(s, t.uid)
      [] t.k = "fvDone" -> fvDone(s, t)
      [] t.k = "bvDone" -> bvDone(s, t)
      [] t.k = "bvFail" -> bvFail(s, t)
      [] t.k = "frDone" -> frDone(s, t)
      [] t.k = "viDone" -> viDone(s, t)

Tick(s, t, frame) ==
    CASE t.k = "fvTick" -> fvTick(s, t, frame)
      [] t.k = "bvTick" -> bvTick(s, t, frame)

Frames(t) == IF t.k = "fvTick" THEN VerifyFrames ELSE BlinkFrames

Rearm(s, i) == [s EXCEPT !.tasks[i].rem = 1]

-----------------------------------------------------------------------------
(* The buttons the current render shows enabled *)

B(n, a) == [n |-> n, a |-> a]

fvButtons(s) ==
    IF ~s.fv.mounted \/ s.fv.isLoading THEN {}
    ELSE IF s.fv.status = "waiting"
    THEN {B("fvCancel", Null)} \cup
         (IF s.fv.isActive /\ FreeIds(s) # {} THEN {B("fvVerify", Null)}
          ELSE {})
    ELSE IF s.fv.status = "failed"
    THEN {B("fvTryAgain", Null), B("fvCancel", Null)}
    ELSE {}

bvButtons(s) ==
    IF ~s.bv.mounted \/ s.bv.isLoading
       \/ s.bv.status \notin {"failed", "waiting"} THEN {}
    ELSE {B("bvCancel", Null)} \cup
         (IF FreeIds(s) # {} THEN {B("bvStart", Null)} ELSE {})

frButtons(s) ==
    IF ~s.fr.mounted \/ s.fr.isLoading THEN {}
    ELSE (IF ~s.fr.isCameraActive /\ s.fr.capturedImages < maxSteps
          THEN {B("frStartCamera", Null)} ELSE {})
         \cup
         (IF s.fr.isCameraActive /\ s.fr.capturedImages < maxSteps
          THEN {B("frStopCamera", Null)} \cup
               (IF ~s.fr.isProcessing
                   /\ Len(s.fr.allDescriptors) < MaxCaptures
                THEN {B("frCapture", a) : a \in s.obs.shots} ELSE {})
          ELSE {})
         \cup
         (IF s.fr.capturedImages > 0 THEN {B("frRetake", Null)} ELSE {})

viFormShown(s) ==
    s.vi.selectedElection # Null /\ s.vi.selectedElection \notin s.vi.userVotes

viButtons(s) ==
    IF ~s.vi.mounted \/ s.vi.isLoading THEN {}
    ELSE {B("viElection", ElectionSeq[i]) : i \in
             {j \in DOMAIN s.vi.elections :
                 /\ s.vi.elections[j] \notin s.vi.userVotes
                 /\ isElectionActive(s, s.vi.elections[j])
                 /\ s.vi.elections[j] # s.vi.selectedElection}}
         \cup
         (IF viFormShown(s)
          THEN {B("viOption", o) : o \in
                   Options[s.vi.selectedElection] \ {s.vi.selectedOption}}
               \cup (IF s.vi.selectedOption # Null /\ ~s.vi.isSubmitting
                     THEN {B("viSubmit", Null)} ELSE {})
          ELSE {})

Buttons(s) ==
    IF s.app.isLoading THEN {}
    ELSE (IF s.app.user # Null THEN {B("signOut", Null)} ELSE {})
         \cup (IF s.app.appState = "complete" THEN {B("reset", Null)} ELSE {})
         \cup fvButtons(s) \cup bvButtons(s) \cup frButtons(s) \cup viButtons(s)

Own(c) == [k |-> c, own |-> c, live |-> TRUE]

Press(s, b) ==
    CASE b.n = "signOut" -> handleSignOut(s)
      [] b.n = "reset" -> resetToVoting(s)
      [] b.n = "fvVerify" -> startVerification(s)
      [] b.n = "fvTryAgain" -> fvTryAgain(s)
      [] b.n = "fvCancel" -> fvCancel(s)
      [] b.n = "bvStart" -> bvStart(s)
      [] b.n = "bvCancel" -> bvCancel(s)
      [] b.n = "frStartCamera" -> frStartCameraClick(s)
      [] b.n = "frStopCamera" -> frStopCamera(s, Own("fr"))
      [] b.n = "frCapture" -> captureFace(s, Shot(b.a))
      [] b.n = "frRetake" -> retakePhoto(s)
      [] b.n = "viElection" -> selectElection(s, b.a)
      [] b.n = "viOption" -> selectOption(s, b.a)
      [] b.n = "viSubmit" -> submitVote(s)

-----------------------------------------------------------------------------
(* Actions *)

Click == \E b \in Buttons(Cur) : Commit(Press(Cur, b), b.n)

Owners == {"idx", "fr", "fv", "bv", "vi"}

Settles(owners) ==
    \E i \in DOMAIN tasks :
        /\ ~IsTimed(tasks[i]) /\ tasks[i].own \in owners
        /\ \E o \in Outcomes(tasks[i]) :
               Commit(Settle(Without(Cur, i), tasks[i], o), "none")

(* timed: a callback runs when it is due; otherwise time is left out and a
   pending callback may run at any moment *)
Timers(timed, owners) ==
    \E i \in DOMAIN tasks :
        /\ IsTimer(tasks[i]) /\ tasks[i].own \in owners
        /\ timed => tasks[i].rem = 0
        /\ Commit(Fire(Without(Cur, i), tasks[i]), "none")

Intervals(timed, owners, watch) ==
    \E i \in DOMAIN tasks :
        /\ IsInterval(tasks[i]) /\ tasks[i].own \in owners
        /\ timed => tasks[i].rem = 0
        /\ \E f \in Frames(tasks[i]) :
               Commit(Tick(Observe(Rearm(Cur, i), tasks[i], f, watch),
                           tasks[i], f), "none")

PromiseSettles == Settles(Owners)

TimerFires == Timers(FALSE, Owners)

IntervalFires == Intervals(FALSE, Owners, "none")

(* The AuthForm signs a user in: the SIGNED_IN event *)
SignIn ==
    /\ ~app.isLoading /\ app.appState = "auth" /\ app.user = Null
    /\ obs.signIns < MaxSignIns
    /\ \E u \in Users :
           Commit(onAuthStateChange([Cur EXCEPT !.obs.signIns = @ + 1], u),
                  "none")

(* The auth client repeats the session (token refresh, tab focus) *)
AuthEvent ==
    /\ app.user # Null
    /\ \A i \in DOMAIN tasks : tasks[i].own # "idx"
    /\ Commit(onAuthStateChange(Cur, app.user), "none")

Bump(a) == IF a < AgeCap THEN a + 1 ELSE a

(* Date.now() moves on by one polling period *)
Elapse ==
    Commit([Cur EXCEPT
               !.tasks = [i \in DOMAIN tasks |->
                             IF IsTimed(tasks[i])
                             THEN [tasks[i] EXCEPT !.rem = @ - 1]
                             ELSE tasks[i]],
               !.bv.lastAge = Bump(@),
               !.obs.mon.age = Bump(@),
               !.obs.gap = Bump(@),
               !.obs.settle = IF obs.mon.count < requiredBlinks THEN 0
                              ELSE IF @ <= Quanta(BlinkSettleDelay)
                              THEN @ + 1 ELSE @,
               !.obs.detFor = IF bv.status = "detecting"
                                 /\ @ <= Quanta(BlinkTimeout)
                              THEN @ + 1 ELSE @], "none")

(* One polling period passes.  Callbacks that are due run first, and an
   awaited promise settles within the period it was issued in. *)
Advance ==
    /\ \E i \in DOMAIN tasks : IsTimed(tasks[i])
    /\ \A i \in DOMAIN tasks : IsTimed(tasks[i]) /\ tasks[i].rem > 0
    /\ Elapse

-----------------------------------------------------------------------------
(* Specifications *)

DbInit ==
    [profiles |-> [u \in Users |->
                      IF u = "u1"
                      THEN [exists |-> TRUE, face |-> Ref, verified |-> TRUE]
                      ELSE NoProfile],
     votes |-> {}, running |-> Elections]

ObsInit ==
    [click |-> "none", out |-> NoAudit, tick |-> 0, vote |-> "none",
     got |-> NoRead, shots |-> EnrollShots, live |-> 0, miss |-> FALSE,
     toast |-> "none",
     signIns |-> 0, maxTasks |-> AppTasks,
     mon |-> MonInit, script |-> 0, gap |-> AgeCap, detFor |-> 0,
     settle |-> 0, retaken |-> FALSE]

Blank ==
    [app |-> AppInit, db |-> DbInit, fr |-> FrInit, fv |-> FvInit,
     bv |-> BvInit, vi |-> ViInit, tasks |-> <<>>,
     cells |-> [i \in 1..MaxIntervals |-> 0], obs |-> ObsInit]

Starts(r) ==
    /\ app = r.app /\ db = r.db /\ fr = r.fr /\ fv = r.fv /\ bv = r.bv
    /\ vi = r.vi /\ tasks = r.tasks /\ cells = r.cells /\ obs = r.obs

(* The page has loaded and no session is stored *)
Init ==
    Starts(AddTask(Blank, [k |-> "getSession", own |-> "idx", live |-> TRUE]))

Next ==
    \/ Click
    \/ PromiseSettles
    \/ TimerFires
    \/ IntervalFires
    \/ SignIn
    \/ AuthEvent

Spec == Init /\ [][Next]_vars

(* u1, enrolled, has signed in and Index has just rendered the step *)
AtStep(step) ==
    Normalize(Render([Blank EXCEPT
        !.app = [user |-> "u1", appState |-> step, userProfile |-> "u1",
                 isLoading |-> FALSE],
        !.obs.signIns = 1, !.obs.maxTasks = StepTasks], TRUE))

(* The Verify step: the clicks while FaceVerification is mounted and the
   callbacks of that instance, to the last one *)
InitVerify == Starts(AtStep("face-verification"))

fvSettles == Settles({"fv"})

fvTimerFires == Timers(FALSE, {"fv"})

fvIntervalFires == Intervals(FALSE, {"fv"}, "none")

NextVerify ==
    \/ fv.mounted /\ Click
    \/ fvSettles
    \/ fvTimerFires
    \/ fvIntervalFires

SpecVerify == InitVerify /\ [][NextVerify]_vars

(* The Liveness step in real time, while BlinkVerification is mounted,
   watched by the detector of the design *)
InitBlink == Starts(AtStep("blink-verification"))

TimerDue == Timers(TRUE, Owners)

IntervalDue == Intervals(TRUE, Owners, "edges")

NextBlink ==
    \/ bv.mounted /\ Click
    \/ bv.mounted /\ PromiseSettles
    \/ bv.mounted /\ TimerDue
    \/ bv.mounted /\ IntervalDue
    \/ bv.mounted /\ Advance

SpecBlink == InitBlink /\ [][NextBlink]_vars

(* The same with room for the callbacks of two attempts: the interval and
   the auto-fail timer of each *)
InitAttempts ==
    Starts([AtStep("blink-verification") EXCEPT !.obs.maxTasks = StepTasks + 1])

(* getUserMedia is still waiting (for the permission prompt) while a polling
   period passes; followed for the first CamWait periods of an attempt *)
CamWaits ==
    /\ \E i \in DOMAIN tasks : IsTimed(tasks[i])
    /\ \A i \in DOMAIN tasks :
           IF IsTimed(tasks[i]) THEN tasks[i].rem > 0
           ELSE tasks[i].k = "bvCam"
    /\ \E i \in DOMAIN tasks : tasks[i].k = "bvCam"
    /\ obs.detFor < CamWait
    /\ Elapse

NextAttempts ==
    \/ bv.mounted /\ Click
    \/ bv.mounted /\ PromiseSettles
    \/ bv.mounted /\ TimerDue
    \/ bv.mounted /\ IntervalDue
    \/ bv.mounted /\ Advance
    \/ bv.mounted /\ CamWaits

SpecAttempts == InitAttempts /\ [][NextAttempts]_vars

(* The same, watched for the script open, closed, open *)
ScriptDue == Intervals(TRUE, Owners, "script")

NextScript ==
    \/ bv.mounted /\ Click
    \/ bv.mounted /\ PromiseSettles
    \/ bv.mounted /\ TimerDue
    \/ bv.mounted /\ ScriptDue
    \/ bv.mounted /\ Advance

SpecScript == InitBlink /\ [][NextScript]_vars

(* The Vote and Done steps, until the session leaves them; u1 may have
   voted in e1 in an earlier session *)
EarlierVote ==
    [user |-> "u1", election |-> "e1", option |-> "a",
     face_verified |-> TRUE, blink_verified |-> TRUE]

InitVoting ==
    \/ Starts(AtStep("voting"))
    \/ Starts([AtStep("voting") EXCEPT !.db.votes = {EarlierVote}])
    \/ Starts([AtStep("voting") EXCEPT !.db.running = {"e2"}])

VotingScope == app.appState \in {"voting", "complete"}

NextVoting ==
    \/ VotingScope /\ Click
    \/ VotingScope /\ PromiseSettles
    \/ VotingScope /\ TimerFires
    \/ VotingScope /\ AuthEvent

SpecVoting == InitVoting /\ [][NextVoting]_vars

(* The Enroll step of u2, whose profile row loadUserProfile has created:
   the clicks while FaceRegistration is mounted and the callbacks of that
   instance, in front of three faces that differ *)
InitEnroll ==
    Starts(Normalize(Render([Blank EXCEPT
        !.app = [user |-> "u2", appState |-> "face-registration",
                 userProfile |-> Null, isLoading |-> FALSE],
        !.db.profiles["u2"] = [NoProfile EXCEPT !.exists = TRUE],
        !.obs.signIns = 1, !.obs.maxTasks = StepTasks,
        !.obs.shots = GradedShots], TRUE)))

frSettles == Settles({"fr"})

frTimerFires == Timers(FALSE, {"fr"})

NextEnroll ==
    \/ fr.mounted /\ Click
    \/ frSettles
    \/ frTimerFires

SpecEnroll == InitEnroll /\ [][NextEnroll]_vars

-----------------------------------------------------------------------------
(* Properties *)

Steps == <<"auth", "face-registration", "face-verification",
           "blink-verification", "voting", "complete">>

AllowedEdges ==
    {<<"auth", "face-registration">>, <<"auth", "face-verification">>,
     <<"face-registration", "face-verification">>,
     <<"face-verification", "blink-verification">>,
     <<"blink-verification", "voting">>, <<"voting", "complete">>,
     <<"complete", "face-verification">>,
     <<"face-verification", "face-registration">>,
     <<"blink-verification", "face-verification">>}
    \cup {<<Steps[i], "auth">> : i \in DOMAIN Steps}

Pending(kinds) == \E i \in DOMAIN tasks : tasks[i].k \in kinds

(* C2: every change of appState follows one of the edges of the session
   state machine: the entry decision, enroll completion, verify success,
   liveness completion, vote completion, Done to Verify, the two cancel edges,
   and any state to Auth *)
C2_OnlyListedEdges ==
    [][app.appState' # app.appState
          => <<app.appState, app.appState'>> \in AllowedEdges]_vars

C5_CompletedAtThree ==
    /\ obs.mon.count >= requiredBlinks /\ ~Pending({"bvDetect"})
           => bv.status = "completed"
    /\ bv.status = "completed" => bv.blinkCount >= requiredBlinks

(* C6: an attempt does not stay in detecting for more than BlinkTimeout *)
C6_FailsAfterTimeout ==
    bv.status = "detecting" => obs.detFor <= Quanta(BlinkTimeout)

(* C7: once the ticks open, closed, open, more than 500 ms apart, have been
   fed to a detecting session, blinkCount is 1 *)
C7_ScriptCountsOne ==
    obs.script = 3 /\ ~Pending({"bvDetect"}) => bv.blinkCount = 1

(* C8: after every tick the eyeClosed flag and the blink count are those
   of the eye-close edge and eye-open edge rules *)
C8_EdgeRules ==
    ~Pending({"bvDetect"}) =>
        /\ bv.isEyeClosed = obs.mon.closed
        /\ bv.blinkCount = obs.mon.count

(* C9: the FACE_VERIFICATION_SUCCESS audit row carries a distance below the
   threshold, the threshold 0.6 and, as attempts, the ordinal of the tick
   that matched *)
C9_SuccessAudit ==
    obs.out.action = "FACE_VERIFICATION_SUCCESS" =>
        /\ obs.out.distSq < MatchThresholdSq
        /\ obs.out.thresholdSq = MatchThresholdSq
        /\ obs.out.attempts = obs.tick

(* C10: a verifying session issues at most maxAttempts ticks, and its status
   is failed only after it has issued maxAttempts ticks *)
C10_TimeoutOnlyAtCap ==
    /\ \A i \in DOMAIN cells : cells[i] <= maxAttempts
    /\ fv.mounted /\ fv.status = "failed"
           => cells[fv.intervalRef] = maxAttempts

(* C11: each audit row is written by the step that makes its transition and
   by no other step. A FACE_VERIFICATION_FAILED row is written only by the
   step that takes a verifying session to failed, a FACE_VERIFICATION_SUCCESS
   row only by the step that takes it to success, a FACE_REGISTERED row only
   by the step that saves the enrolled profile, and a VOTE_SUBMITTED row only
   by the step that inserts the vote *)
C11_OneAuditPerTransition ==
    [][/\ obs.out'.action = "FACE_VERIFICATION_FAILED"
          => fv.status = "verifying" /\ fv'.status = "failed"
       /\ obs.out'.action = "FACE_VERIFICATION_SUCCESS"
          => fv.status = "verifying" /\ fv'.status = "success"
       /\ obs.out'.action = "FACE_REGISTERED"
          => db.profiles' # db.profiles
       /\ obs.out'.action = "VOTE_SUBMITTED"
          => Cardinality(db.votes') = Cardinality(db.votes) + 1]_vars

(* C12: the Face Matcher is never verifying without a loaded reference
   descriptor, no polling or detection callback carries an empty reference,
   and a load that found no descriptor (no row, no face_descriptor, or an
   error of the select) leaves the session in Enroll *)
C12_NoVerifyWithoutReference ==
    /\ fv.status = "verifying" => fv.stored # NoFace
    /\ \A i \in DOMAIN tasks :
           tasks[i].k \in {"fvTick", "fvDetect"} => tasks[i].stored # NoFace
    /\ obs.got.k = "descriptor" /\ obs.got.face = NoFace
           => /\ app.appState = "face-registration"
              /\ ~fv.mounted

(* the select of a mounted Verify step failed and Enroll is shown *)
C12_AbortedToEnroll ==
    /\ obs.got.k = "descriptor" /\ obs.got.face = NoFace
    /\ app.user # Null
    /\ app.appState = "face-registration"
    /\ fr.mounted

(* C13: when the enrollment that captured [1,1,1], [3,3,3], [5,5,5] in steps
   1, 2, 3 has saved the profile, the stored face_descriptor is [3,3,3] *)
C13_MeanOfThree ==
    /\ obs.out.action = "FACE_REGISTERED"
    /\ fr.allDescriptors = <<Shot("one"), Shot("three"), Shot("five")>>
    => db.profiles[obs.out.uid].face = <<3, 3, 3>>

(* C14: the mean of an enrollment is computed over exactly maxSteps
   descriptors, and while the pose step is below the last one and no capture
   is being processed the set holds one descriptor per completed pose: a
   capture without a face or with a failed upload added none *)
C14_ExactlyThreeEmbeddings ==
    /\ \A i \in DOMAIN tasks :
           tasks[i].k = "frUpsert" => tasks[i].n = maxSteps
    /\ fr.mounted /\ ~fr.isProcessing /\ fr.currentStep < maxSteps
           => Len(fr.allDescriptors) = fr.currentStep - 1

(* C15: the step that writes FACE_REGISTERED has saved the profile with a
   descriptor and is_verified, the row records maxSteps aggregated captures,
   and Enroll hands over to Verify only with the profile of the user saved *)
C15_SavedBeforeVerify ==
    [][/\ obs.out'.action = "FACE_REGISTERED"
          => /\ db.profiles'[obs.out'.uid].verified
             /\ db.profiles'[obs.out'.uid].face # NoFace
             /\ obs.out'.avgAccuracy = maxSteps
       /\ /\ app.appState = "face-registration"
          /\ app'.appState = "face-verification"
          /\ app'.user # Null
          => /\ db.profiles'[app'.user].verified
             /\ db.profiles'[app'.user].face # NoFace]_vars

(* C16: the step in which loadUserProfile has read the profile of the user
   sets face-registration when the row has no face descriptor or is not
   verified and face-verification otherwise; the step in which it has created
   the missing row sets face-registration; the step in which it found no row
   leaves the state as it is *)
C16_EntryDecision ==
    [][/\ obs.got'.k = "profile" /\ obs.got'.row.exists
          => app'.appState =
                 IF obs.got'.row.face = NoFace \/ ~obs.got'.row.verified
                 THEN "face-registration" ELSE "face-verification"
       /\ obs.got'.k = "profile" /\ ~obs.got'.row.exists
          => app'.appState = app.appState
       /\ obs.got'.k = "created"
          => app'.appState = "face-registration"]_vars

(* loadUserProfile has read a row without a descriptor and shows Enroll *)
C16_UnenrolledToEnroll ==
    /\ obs.got.k = "profile" /\ obs.got.row.exists
    /\ obs.got.row.face = NoFace
    /\ app.appState = "face-registration"

(* the streams that are the srcObject of the video element of a mounted step *)
Attached == {c \in {"fr", "fv", "bv"} : Cur[c].stream}

(* C17: every open camera stream is the srcObject of the video element of
   the step that is mounted: no step has left, by completion, cancellation,
   failure, sign-out or teardown, a stream whose tracks were not stopped *)
C17_StreamsReleased == obs.live = Cardinality(Attached)

(* C18: at most one camera stream is open at any time *)
C18_AtMostOneStream == obs.live <= 1

(* C19: no two detection calls of one polling session are pending at the
   same time, in the Face Matcher and in the Blink Detector *)
C19_OneDetectionInFlight ==
    \A i, j \in DOMAIN tasks :
        i # j =>
            /\ ~(/\ tasks[i].k = "fvDetect" /\ tasks[j].k = "fvDetect"
                 /\ tasks[i].id = tasks[j].id)
            /\ ~(tasks[i].k = "bvDetect" /\ tasks[j].k = "bvDetect")

(* C20: once a verifying or detecting session has failed its polling timer
   is no longer armed, and no polling timer of a step is armed after the
   step has unmounted *)
C20_TimerStoppedOnExpiry ==
    /\ fv.status = "failed" =>
           \A i \in DOMAIN tasks : tasks[i].k # "fvTick"
    /\ bv.status = "failed" =>
           \A i \in DOMAIN tasks : tasks[i].k # "bvTick"
    /\ \A i \in DOMAIN tasks :
           tasks[i].k \in {"fvTick", "bvTick"} => tasks[i].live

(* C21: once the Verify step has been left, the polling, detection, audit
   and completion callbacks of the instance that was left write no audit row
   and change nothing of the session: not the state, the user or the profile
   Index holds *)
C21_NoEffectAfterLeaving ==
    [][~fv.mounted /\ ~Pending({"fvLoad", "fvCam"})
          => obs.out'.action = "none" /\ app' = app]_vars

(* C23: Verify Face starts a verifying session whose attempts counter is 0,
   and a verifying session becomes failed only on its own maxAttempts ticks:
   the ticks of an earlier session are not counted against it *)
C23_RestartHasFullBudget ==
    [][/\ obs.click' = "fvVerify" /\ fv'.status = "verifying"
          => cells'[fv'.intervalRef] = 0
       /\ fv.status = "verifying" /\ fv'.status = "failed"
          => cells[fv.intervalRef] = maxAttempts]_vars

(* C24: an attempt that has run out of its budget can be retried in the same
   step: when a detecting session has lasted BlinkTimeout the Liveness step
   shows its retry button, and when a verifying session has failed the
   session is still in Verify and the Verify step shows Try Again *)
C24_RetryAfterTimeout ==
    /\ bv.mounted /\ obs.detFor > Quanta(BlinkTimeout)
           => \E b \in Buttons(Cur) : b.n = "bvStart"
    /\ fv.mounted /\ fv.status = "failed"
           => /\ app.appState = "face-verification"
              /\ \E b \in Buttons(Cur) : b.n = "fvTryAgain"

(* C25: the step that processes a detection without a face changes nothing
   of the Face Matcher, of the Blink Detector or of the session and writes
   no audit row *)
C25_MissIsSkipped ==
    [][obs.miss' => /\ fv' = fv /\ bv' = bv /\ app' = app
                   /\ obs.out'.action = "none"]_vars

(* a verifying session has just processed a detection without a face *)
C25_MissProcessed ==
    obs.miss /\ fv.mounted /\ fv.status = "verifying"

(* the submissions under way: inserts, audit inserts and completion timers *)
VotesUnderWay ==
    Cardinality({i \in DOMAIN tasks :
                     tasks[i].k \in {"viInsert", "viAudit", "viDone"}})

(* C26: the step in which the vote insert is rejected as a duplicate ends
   that submission: it issues no further insert, writes no VOTE_SUBMITTED
   row, adds no vote, arms no completion and leaves the session state and
   the form (no longer submitting) as they are *)
C26_DuplicateEndsSubmission ==
    [][obs.vote' = "duplicate"
          => /\ obs.out'.action = "none"
             /\ db.votes' = db.votes
             /\ app' = app
             /\ VotesUnderWay' = VotesUnderWay - 1
             /\ vi'.mounted => ~vi'.isSubmitting]_vars

(* a duplicate was rejected and the form is shown again *)
C26_DuplicateReported ==
    /\ obs.vote = "duplicate"
    /\ app.appState = "voting"
    /\ vi.mounted /\ ~vi.isSubmitting

(* a store error of a vote submission, an enrollment save or a profile
   load was shown by the step just taken *)
ErrorSurfaced == obs.toast # "none" \/ obs.vote \in {"error", "duplicate"}

(* the continuations of a store request that succeeded: audit inserts of a
   cast vote or a saved enrollment, and the timers that advance the session *)
Continuations ==
    Cardinality({i \in DOMAIN tasks :
                     tasks[i].k \in {"viAudit", "viDone", "frAudit", "frDone"}})

(* C27: a step that shows a store error for a vote submission, an
   enrollment save or a profile load or creation writes no vote and no
   profile, leaves the session state as it is, and arms nothing that would
   advance it (no completion of a vote, none of an enrollment) *)
C27_ErrorLeavesNothing ==
    [][ErrorSurfaced'
          => /\ db' = db
             /\ app'.appState = app.appState
             /\ Continuations' <= Continuations]_vars

(* the final enrollment save failed and the session is still in Enroll *)
C27_EnrollSaveFailed ==
    /\ obs.toast = "enroll"
    /\ app.appState = "face-registration"
    /\ fr.mounted /\ Len(fr.allDescriptors) >= maxSteps
    /\ ~db.profiles[app.user].verified

(* C28: once three qualifying blinks have been fed, their detections have
   resolved and more than BlinkSettleDelay has passed, the session has left
   the liveness step; the step is left for Vote only from status completed;
   and at most one completion is armed at any time *)
C28_SignalledOnceAfterSettle ==
    /\ [](/\ obs.mon.count >= requiredBlinks /\ ~Pending({"bvDetect"})
             /\ obs.settle > Quanta(BlinkSettleDelay)
                 => app.appState # "blink-verification"
          /\ Cardinality({i \in DOMAIN tasks : tasks[i].k = "bvDone"}) <= 1)
    /\ [][app.appState = "blink-verification" /\ app'.appState = "voting"
              => bv.status = "completed"]_vars

(* the polling intervals that are set and not cleared *)
Polling == {i \in DOMAIN tasks : IsInterval(tasks[i])}

(* C29: at most one detector polling interval is set at any time *)
C29_OnePollingTimer == Cardinality(Polling) <= 1

(* C31: a session whose status is failed does not become success, and the
   session does not go from Verify to Liveness, in one step from failed:
   only a restart (Try Again, then Verify Face) leaves failed *)
C31_FailedStaysFailed ==
    [][fv.mounted /\ fv.status = "failed"
          => /\ fv'.mounted => fv'.status # "success"
             /\ app'.appState # "blink-verification"]_vars

(* the completions of the mounted FaceVerification that are on their way:
   success audit inserts awaited and completion timers armed *)
Completions ==
    {i \in DOMAIN tasks :
         tasks[i].k \in {"fvOkAudit", "fvDone"} /\ tasks[i].live}

(* C32: the mounted FaceVerification has at most one completion on its way,
   and the session goes from Verify to Liveness only while the status is
   success *)
C32_OneCompletion ==
    /\ [](Cardinality(Completions) <= 1)
    /\ [][app.appState = "face-verification"
              /\ app'.appState = "blink-verification"
              => fv.status = "success"]_vars

(* C33: while no user is signed in the session state is Auth *)
C33_SignedOutIsAuth == app.user = Null => app.appState = "auth"

(* C34: a Blink Detector that is detecting and a Face Matcher that is
   verifying have a camera stream attached to their video element *)
C34_DetectingHasCamera ==
    /\ bv.mounted /\ bv.status = "detecting" => bv.stream
    /\ fv.mounted /\ fv.status = "verifying" => fv.stream

(* the auto-fail timers that have not fired yet *)
FailTimers == {i \in DOMAIN tasks : tasks[i].k = "bvFail" /\ tasks[i].live}

(* C35: an attempt that has been detecting for less than BlinkTimeout is
   not failed by any step, in particular not by the auto-fail timer of an
   earlier attempt firing *)
C35_OnlyOwnTimerFails ==
    [][bv.mounted /\ bv.status = "detecting"
          /\ obs.detFor < Quanta(BlinkTimeout)
          => (bv'.mounted => bv'.status # "failed")]_vars

(* the timer of the first attempt has fired during the second attempt, whose
   own timer is still pending *)
C35_EarlierTimerFired ==
    /\ bv.mounted /\ bv.status = "detecting"
    /\ Cardinality(Polling) = 2 /\ Cardinality(FailTimers) = 1
    /\ obs.detFor > 0 /\ obs.detFor < Quanta(BlinkTimeout)

(* C36: from Start Over until the next capture is pressed the capture set
   of the enrollment is empty and the pose step is 1, no profile is written
   and the session does not go from Enroll to Verify *)
C36_StartOverDiscards ==
    /\ [](obs.retaken /\ fr.mounted
              => /\ fr.allDescriptors = <<>> /\ fr.capturedImages = 0
                 /\ fr.currentStep = 1)
    /\ [][obs.retaken /\ obs.retaken'
              => /\ db' = db
                 /\ app.appState = "face-registration"
                        => app'.appState # "face-verification"]_vars

(* C37: every vote insert submitVote has issued carries an option of the
   election it names *)
C37_OptionOfElection ==
    \A i \in DOMAIN tasks :
        tasks[i].k \in {"viIp", "viInsert"}
            => tasks[i].option \in Options[tasks[i].election]

(* C38: every vote insert submitVote has issued is for an election that is
   running (now within its dates) and in which the store holds no vote of
   the user *)
C38_ActiveAndNotVoted ==
    \A i \in DOMAIN tasks :
        tasks[i].k \in {"viIp", "viInsert"}
            => /\ tasks[i].election \in db.running
               /\ ~VoteExists(db.votes, tasks[i].uid, tasks[i].election)

(* C39: a step in which loadUserProfile has read (or created) the profile
   of the signed-in user while the session is in Liveness, Vote or Done
   leaves the session state as it is *)
C39_ReloadKeepsState ==
    [][/\ obs.got'.k \in {"profile", "created"}
       /\ app.user # Null /\ app'.user = app.user
       /\ app.appState \in {"blink-verification", "voting", "complete"}
       => app'.appState = app.appState]_vars

====
